---- MODULE Spec2Model ----
(***************************************************************************)
(* gather-dependencies (src/main.go): the recursive dependency listing     *)
(* getDependenciesRecursive, the per-file listing getDependencies          *)
(* (readelf and parse variants) and the library resolver findLibrary /     *)
(* selectLibrary / getLibraryMachineType.                                  *)
(*                                                                         *)
(* The file system, the ldconfig cache and the command line are the        *)
(* program's inputs.  They are fixed during a run and drawn in Init.       *)
(***************************************************************************)
EXTENDS Integers, Sequences, FiniteSets, TLC

\* ---------------------------------------------------------------- bounds
NumLibs == 3        \* library paths besides the input file
MaxEdges == 4       \* NEEDED entries over all files
MaxCand == 2        \* cache candidates of one name in the resolver runs

\* ------------------------------------------------------ program constants
modeReadELF == "ReadELF"
modeParse == "Parse"
findModeLD == "LD"
findModeSearch == "Search"
machineTypeUnknown == ""
machineTypeX86 == "x86"
machineTypeAMD64 == "x86-64"

\* ------------------------------------------------------------ the inputs
\* Absolute paths.  Path 0 is the input file, 1..NumLibs are libraries.
Paths == 0..NumLibs
\* Library short names.  In a healthy cache name n is installed as path n.
Names == 0..NumLibs
\* "no path" / "no current library"
NoLib == NumLibs + 1

\* What elf.ParseELFFile makes of a file: one of the two concrete types, some
\* other implementation of the interface, or a read/parse error.
FileTypes == {"ELF32File", "ELF64File", "OtherELF", "Unparseable"}

VARIABLES
    mode,         \* *mode flag
    findMode,     \* *findMode flag
    machineType,  \* global machineType, set by main
    inputFile,    \* the input binary
    needed,       \* file system: path -> names of its NEEDED entries, in table order
    hasDynamic,   \* file system: path -> file has a .dynamic section
    hasDynStr,    \* file system: path -> file has a .dynstr section
    ftype,        \* file system: path -> FileTypes
    cache,        \* ldconfig -p: name -> candidate paths, in enumeration order
    pc,           \* position of the program
    open,         \* getDependenciesRecursive: worklist
    seen,         \* getDependenciesRecursive: seen set
    files,        \* getDependenciesRecursive: output list
    lib,          \* getDependenciesRecursive: the library popped last
    libs,         \* getDependenciesRecursive: its dependencies
    ret,          \* what getDependenciesRecursive returned to main
    gathered,     \* the files main copies
    exit,         \* how the process ended
    selName,      \* resolver runs: the name looked up
    selOut        \* resolver runs: what findLibrary returned

env == <<mode, findMode, inputFile, needed, hasDynamic, hasDynStr, ftype, cache>>
closureVars == <<open, seen, files, lib, libs, ret, gathered>>
vars == <<mode, findMode, machineType, inputFile, needed, hasDynamic, hasDynStr,
          ftype, cache, pc, open, seen, files, lib, libs, ret, gathered, exit,
          selName, selOut>>

Range(s) == {s[k] : k \in 1..Len(s)}
SeqsUpTo(S, n) == UNION {[1..k -> S] : k \in 0..n}

\* results of the Go functions: (value, error) or a panic
Ok(v) == [st |-> "ok", val |-> v, why |-> ""]
ErrPath(w) == [st |-> "err", val |-> NoLib, why |-> w]
PanicPath == [st |-> "panic", val |-> NoLib, why |-> "panic"]
ErrList(w) == [st |-> "err", val |-> <<>>, why |-> w]
PanicList == [st |-> "panic", val |-> <<>>, why |-> "panic"]

\* ------------------------------------------------------- Find Libraries

\* getLibraryMachineType: panics when the file cannot be read or parsed,
\* otherwise maps the concrete ELF type to a machine type.
getLibraryMachineType(path) ==
    CASE ftype[path] = "Unparseable" -> [st |-> "panic", val |-> machineTypeUnknown, why |-> "panic"]
      [] ftype[path] = "ELF32File" -> Ok(machineTypeX86)
      [] ftype[path] = "ELF64File" -> Ok(machineTypeAMD64)
      [] OTHER -> Ok(machineTypeUnknown)

RECURSIVE selectLibraryFrom(_, _, _)
\* mutant: gives up at the first candidate of another machine type
selectLibraryFrom_FirstOnly(name, candidates, k) ==
    IF k > Len(candidates)
    THEN ErrPath("ArchitectureMismatch")
    ELSE LET r == getLibraryMachineType(candidates[k])
         IN IF r.st # "ok" THEN PanicPath
            ELSE IF r.val = machineType THEN Ok(candidates[k])
            ELSE ErrPath("ArchitectureMismatch")

\* the loop of selectLibrary from candidate k on
selectLibraryFrom(name, candidates, k) ==
    IF k > Len(candidates)
    THEN ErrPath("ArchitectureMismatch")
    ELSE LET r == getLibraryMachineType(candidates[k])
         IN IF r.st # "ok" THEN PanicPath
            ELSE IF r.val = machineType THEN Ok(candidates[k])
            ELSE selectLibraryFrom(name, candidates, k + 1)

selectLibrary(name, candidates) == selectLibraryFrom(name, candidates, 1)

\* findLibraryLDConfig: cache[name] is the list of m[2] with m[1] = name.
findLibraryLDConfig(name) ==
    LET candidates == cache[name]
    IN IF Len(candidates) = 0
       THEN ErrPath("NotFound")
       ELSE selectLibrary(name, candidates)

findLibrary(name) ==
    IF findMode = findModeLD THEN findLibraryLDConfig(name)
    ELSE IF findMode = findModeSearch THEN ErrPath("NotImplemented")
    ELSE ErrPath("InvalidFindMode")

\* ------------------------------------------------- Dependency Listing

RECURSIVE resolveNeeded(_, _, _)
\* the loops over the NEEDED names: resolve each, stop at the first failure
resolveNeeded(names, k, acc) ==
    IF k > Len(names)
    THEN Ok(acc)
    ELSE LET r == findLibrary(names[k])
         IN IF r.st = "panic" THEN PanicList
            ELSE IF r.st = "err" THEN ErrList(r.why)
            ELSE resolveNeeded(names, k + 1, Append(acc, r.val))

\* getDependenciesReadELF: readelf -d fails on a file it cannot read, reports
\* no NEEDED line for a file without a dynamic section
getDependenciesReadELF(file) ==
    IF ftype[file] = "Unparseable" THEN ErrList("readelf")
    ELSE IF hasDynamic[file] /\ hasDynStr[file] THEN resolveNeeded(needed[file], 1, <<>>)
    ELSE Ok(<<>>)

getDependenciesParse(file) ==
    IF ftype[file] = "Unparseable" THEN PanicList
    ELSE IF ~hasDynamic[file] THEN ErrList("NotDynamic")
    ELSE IF ~hasDynStr[file] THEN ErrList("NotDynamic")
    ELSE resolveNeeded(needed[file], 1, <<>>)

getDependencies(file) ==
    IF mode = modeReadELF THEN getDependenciesReadELF(file)
    ELSE IF mode = modeParse THEN getDependenciesParse(file)
    ELSE ErrList("InvalidMode")

RECURSIVE enqueueUnseen(_, _, _, _)
\* mutant: marks a new library seen but does not put it on the worklist
enqueueUnseen_Drop(ls, k, o, s) ==
    IF k > Len(ls) THEN [open |-> o, seen |-> s]
    ELSE [open |-> o, seen |-> s \cup Range(ls)]

\* the loop "for _, lib := range libs" of getDependenciesRecursive
enqueueUnseen(ls, k, o, s) ==
    IF k > Len(ls) THEN [open |-> o, seen |-> s]
    ELSE IF ls[k] \notin s
         THEN enqueueUnseen(ls, k + 1, Append(o, ls[k]), s \cup {ls[k]})
         ELSE enqueueUnseen(ls, k + 1, o, s)

NilRet == [files |-> <<>>, isNil |-> TRUE, err |-> FALSE]

\* ------------------------------------------------------------- actions

\* main: detect the machine type of the input file
MainClassify ==
    /\ pc = "main"
    /\ LET r == getLibraryMachineType(inputFile)
       IN IF r.st = "panic"
          THEN /\ pc' = "exit" /\ exit' = "panic" /\ UNCHANGED machineType
          ELSE IF r.val = machineTypeUnknown
          THEN /\ pc' = "exit" /\ exit' = "fatal" /\ UNCHANGED machineType
          ELSE /\ pc' = "seed" /\ machineType' = r.val /\ UNCHANGED exit
    /\ UNCHANGED <<env, closureVars, selName, selOut>>

\* mutant: the seeded libraries are not marked seen
Seed_NoSeen ==
    /\ pc = "seed"
    /\ LET r == getDependencies(inputFile)
       IN IF r.st = "panic"
          THEN /\ pc' = "exit" /\ exit' = "panic"
               /\ UNCHANGED <<open, seen, files, ret>>
          ELSE IF r.st = "err"
          THEN /\ pc' = "returned"
               /\ ret' = [files |-> <<>>, isNil |-> TRUE, err |-> TRUE]
               /\ UNCHANGED <<open, seen, files, exit>>
          ELSE /\ pc' = "loop"
               /\ open' = r.val
               /\ seen' = {}
               /\ files' = <<>>
               /\ UNCHANGED <<ret, exit>>
    /\ UNCHANGED <<env, machineType, lib, libs, gathered, selName, selOut>>

\* mutant: the input file itself is put on the worklist
Seed_WithRoot ==
    /\ pc = "seed"
    /\ LET r == getDependencies(inputFile)
       IN IF r.st = "panic"
          THEN /\ pc' = "exit" /\ exit' = "panic"
               /\ UNCHANGED <<open, seen, files, ret>>
          ELSE IF r.st = "err"
          THEN /\ pc' = "returned"
               /\ ret' = [files |-> <<>>, isNil |-> TRUE, err |-> TRUE]
               /\ UNCHANGED <<open, seen, files, exit>>
          ELSE /\ pc' = "loop"
               /\ open' = <<inputFile>> \o r.val
               /\ seen' = Range(r.val) \cup {inputFile}
               /\ files' = <<>>
               /\ UNCHANGED <<ret, exit>>
    /\ UNCHANGED <<env, machineType, lib, libs, gathered, selName, selOut>>

\* getDependenciesRecursive up to the drain loop
Seed ==
    /\ pc = "seed"
    /\ LET r == getDependencies(inputFile)
       IN IF r.st = "panic"
          THEN /\ pc' = "exit" /\ exit' = "panic"
               /\ UNCHANGED <<open, seen, files, ret>>
          ELSE IF r.st = "err"
          THEN /\ pc' = "returned"
               /\ ret' = [files |-> <<>>, isNil |-> TRUE, err |-> TRUE]
               /\ UNCHANGED <<open, seen, files, exit>>
          ELSE /\ pc' = "loop"
               /\ open' = r.val
               /\ seen' = Range(r.val)
               /\ files' = <<>>
               /\ UNCHANGED <<ret, exit>>
    /\ UNCHANGED <<env, machineType, lib, libs, gathered, selName, selOut>>

\* mutant: a failing library ends the loop with the list gathered so far
Pop_Partial ==
    /\ pc = "loop"
    /\ Len(open) > 0
    /\ lib' = open[1]
    /\ open' = Tail(open)
    /\ LET r == getDependencies(open[1])
       IN IF r.st = "ok"
          THEN /\ pc' = "append" /\ libs' = r.val /\ UNCHANGED <<ret, exit>>
          ELSE /\ pc' = "returned"
               /\ ret' = [files |-> files, isNil |-> FALSE, err |-> FALSE]
               /\ UNCHANGED <<libs, exit>>
    /\ UNCHANGED <<env, machineType, seen, files, gathered, selName, selOut>>

\* mutant: the worklist is used as a stack
Pop_Last ==
    /\ pc = "loop"
    /\ Len(open) > 0
    /\ lib' = open[Len(open)]
    /\ open' = SubSeq(open, 1, Len(open) - 1)
    /\ LET r == getDependencies(open[Len(open)])
       IN IF r.st = "panic"
          THEN /\ pc' = "exit" /\ exit' = "panic" /\ UNCHANGED <<libs, ret>>
          ELSE IF r.st = "err"
          THEN /\ pc' = "returned"
               /\ ret' = [files |-> <<>>, isNil |-> TRUE, err |-> TRUE]
               /\ UNCHANGED <<libs, exit>>
          ELSE /\ pc' = "append" /\ libs' = r.val /\ UNCHANGED <<ret, exit>>
    /\ UNCHANGED <<env, machineType, seen, files, gathered, selName, selOut>>

\* mutant: the popped library is not appended before its dependencies are enqueued
Pop_SkipAppend ==
    /\ pc = "loop"
    /\ Len(open) > 0
    /\ lib' = open[1]
    /\ open' = Tail(open)
    /\ LET r == getDependencies(open[1])
       IN IF r.st = "panic"
          THEN /\ pc' = "exit" /\ exit' = "panic" /\ UNCHANGED <<libs, ret>>
          ELSE IF r.st = "err"
          THEN /\ pc' = "returned"
               /\ ret' = [files |-> <<>>, isNil |-> TRUE, err |-> TRUE]
               /\ UNCHANGED <<libs, exit>>
          ELSE /\ pc' = "enqueue" /\ libs' = r.val /\ UNCHANGED <<ret, exit>>
    /\ UNCHANGED <<env, machineType, seen, files, gathered, selName, selOut>>

\* one pass of the drain loop up to the error check: pop the head, list its
\* dependencies
Pop ==
    /\ pc = "loop"
    /\ Len(open) > 0
    /\ lib' = open[1]
    /\ open' = Tail(open)
    /\ LET r == getDependencies(open[1])
       IN IF r.st = "panic"
          THEN /\ pc' = "exit" /\ exit' = "panic" /\ UNCHANGED <<libs, ret>>
          ELSE IF r.st = "err"
          THEN /\ pc' = "returned"
               /\ ret' = [files |-> <<>>, isNil |-> TRUE, err |-> TRUE]
               /\ UNCHANGED <<libs, exit>>
          ELSE /\ pc' = "append" /\ libs' = r.val /\ UNCHANGED <<ret, exit>>
    /\ UNCHANGED <<env, machineType, seen, files, gathered, selName, selOut>>

\* files = append(files, lib)
AppendFile ==
    /\ pc = "append"
    /\ files' = Append(files, lib)
    /\ pc' = "enqueue"
    /\ UNCHANGED <<env, machineType, open, seen, lib, libs, ret, gathered, exit,
                   selName, selOut>>

\* the loop over libs: enqueue what has not been seen
Enqueue ==
    /\ pc = "enqueue"
    /\ LET q == enqueueUnseen(libs, 1, open, seen)
       IN /\ open' = q.open
          /\ seen' = q.seen
    /\ pc' = "loop"
    /\ UNCHANGED <<env, machineType, files, lib, libs, ret, gathered, exit,
                   selName, selOut>>

\* the loop ends: return files, nil
Return ==
    /\ pc = "loop"
    /\ Len(open) = 0
    /\ ret' = [files |-> files, isNil |-> FALSE, err |-> FALSE]
    /\ pc' = "returned"
    /\ UNCHANGED <<env, machineType, open, seen, files, lib, libs, gathered, exit,
                   selName, selOut>>

\* main: log.Fatalf on an error, otherwise copy every file of the list
MainGather ==
    /\ pc = "returned"
    /\ IF ret.err
       THEN /\ exit' = "fatal" /\ UNCHANGED gathered
       ELSE /\ exit' = "ok" /\ gathered' = ret.files
    /\ pc' = "exit"
    /\ UNCHANGED <<env, machineType, open, seen, files, lib, libs, ret,
                   selName, selOut>>

Next ==
    \/ MainClassify
    \/ Seed
    \/ Pop
    \/ AppendFile
    \/ Enqueue
    \/ Return
    \/ MainGather

\* ---------------------------------------------------------------- Init

MaxOf(S) == CHOOSE x \in S : \A y \in S : y <= x

\* Libraries are numbered in the order in which the NEEDED tables first name
\* them: a table names library k + 1 only after library k has been named.
InOrder(s, mx) ==
    \A i \in 1..Len(s) : s[i] <= 1 + MaxOf({mx} \cup {s[j] : j \in 1..(i - 1)})

RECURSIVE NeededTables(_, _, _)
\* The NEEDED tables of the paths p..NumLibs (entry 1 is path p's) with at
\* most budget entries in total, up to renaming of the libraries: mx is the
\* highest library named by the paths before p, and a library that no earlier
\* path names is never read, so it and all after it get the empty table.
NeededTables(p, budget, mx) ==
    IF p > NumLibs THEN {<<>>}
    ELSE IF p > mx THEN {[q \in 1..(NumLibs - p + 1) |-> <<>>]}
    ELSE UNION {{<<s>> \o t : t \in NeededTables(p + 1, budget - Len(s),
                                                 MaxOf({mx} \cup Range(s)))} :
                s \in {u \in SeqsUpTo(Names, budget) : InOrder(u, mx)}}

NeededOf(t) == [p \in Paths |-> t[p + 1]]

\* the healthy system: every file is a dynamic 64-bit ELF file and every name
\* is installed once, as the path of the same number
HealthyDynamic == [p \in Paths |-> TRUE]
HealthyType == [p \in Paths |-> "ELF64File"]
HealthyCache == [n \in Names |-> <<n>>]

InitProgram ==
    /\ machineType = machineTypeUnknown
    /\ inputFile = 0
    /\ pc = "main"
    /\ open = <<>>
    /\ seen = {}
    /\ files = <<>>
    /\ lib = NoLib
    /\ libs = <<>>
    /\ ret = NilRet
    /\ gathered = <<>>
    /\ exit = "running"
    /\ selName = 0
    /\ selOut = ErrPath("")

\* either mode, any NEEDED tables, and at most one thing wrong with the
\* system: the unimplemented find mode, a file without a .dynamic or a .dynstr
\* section, a file of another type, or a name missing from the cache
InitSystem ==
    /\ mode \in {modeReadELF, modeParse}
    /\ \E t \in NeededTables(0, MaxEdges, 0) : needed = NeededOf(t)
    /\ \/ /\ findMode \in {findModeLD, findModeSearch}
          /\ hasDynamic = HealthyDynamic
          /\ hasDynStr = HealthyDynamic
          /\ ftype = HealthyType
          /\ cache = HealthyCache
       \/ /\ findMode = findModeLD
          /\ \E p \in Paths : hasDynamic = [HealthyDynamic EXCEPT ![p] = FALSE]
          /\ hasDynStr = HealthyDynamic
          /\ ftype = HealthyType
          /\ cache = HealthyCache
       \/ /\ findMode = findModeLD
          /\ hasDynamic = HealthyDynamic
          /\ \E p \in Paths : hasDynStr = [HealthyDynamic EXCEPT ![p] = FALSE]
          /\ ftype = HealthyType
          /\ cache = HealthyCache
       \/ /\ findMode = findModeLD
          /\ hasDynamic = HealthyDynamic
          /\ hasDynStr = HealthyDynamic
          /\ \E p \in Paths, ft \in FileTypes : ftype = [HealthyType EXCEPT ![p] = ft]
          /\ cache = HealthyCache
       \/ /\ findMode = findModeLD
          /\ hasDynamic = HealthyDynamic
          /\ hasDynStr = HealthyDynamic
          /\ ftype = HealthyType
          /\ \E n \in Names : cache = [HealthyCache EXCEPT ![n] = <<>>]

Init == InitProgram /\ InitSystem

Spec == Init /\ [][Next]_vars

\* the program is one sequential process: it keeps running until it exits
FairSpec == Spec /\ WF_vars(Next)

\* ------------------------------------------------------- resolver runs
\* findLibrary applied to one name, for every cache entry of at most MaxCand
\* candidates and every typing of the files

Resolve ==
    /\ pc = "resolve"
    /\ selOut' = findLibrary(selName)
    /\ pc' = "resolved"
    /\ UNCHANGED <<env, machineType, closureVars, exit, selName>>

ResolveInit ==
    /\ mode = modeReadELF
    /\ findMode \in {findModeLD, findModeSearch}
    /\ machineType \in {machineTypeX86, machineTypeAMD64}
    /\ inputFile = 0
    /\ needed = [p \in Paths |-> <<>>]
    /\ hasDynamic = HealthyDynamic
    /\ hasDynStr = HealthyDynamic
    /\ ftype \in [Paths -> FileTypes]
    /\ selName = NumLibs
    /\ \E c \in SeqsUpTo(Paths, MaxCand) :
          cache = [n \in Names |-> IF n = NumLibs THEN c ELSE <<>>]
    /\ pc = "resolve"
    /\ open = <<>>
    /\ seen = {}
    /\ files = <<>>
    /\ lib = NoLib
    /\ libs = <<>>
    /\ ret = NilRet
    /\ gathered = <<>>
    /\ exit = "running"
    /\ selOut = ErrPath("")

ResolveNext == Resolve

ResolveSpec == ResolveInit /\ [][ResolveNext]_vars

\* =====================================================================
\* Properties
\* =====================================================================

MinOf(S) == CHOOSE x \in S : \A y \in S : x <= y
LastIs(s, x) == Len(s) > 0 /\ s[Len(s)] = x
\* the resolved direct dependencies of a file, as getDependencies lists them
Deps(f) == getDependencies(f)
HealthySystem ==
    /\ findMode = findModeLD
    /\ hasDynamic = HealthyDynamic
    /\ hasDynStr = HealthyDynamic
    /\ ftype = HealthyType
    /\ cache = HealthyCache
\* the files read as "current file": the input file, the output, the library in hand
Processed == {inputFile} \cup Range(files) \cup ({lib} \ {NoLib})

\* C1: a returned list contains no path twice.
C1_NoDuplicates ==
    ~ret.isNil =>
        \A i, j \in 1..Len(ret.files) : i # j => ret.files[i] # ret.files[j]

\* C2: Completeness.  When a list is returned, every dependency of the input
\* file and of every file of the list is in the list.
C2_Completeness ==
    ~ret.isNil =>
        \A f \in {inputFile} \cup Range(ret.files) :
            /\ Deps(f).st = "ok"
            /\ Range(Deps(f).val) \subseteq Range(ret.files)

C2_Witness ==
    /\ pc = "exit"
    /\ needed[0] = <<1>> /\ needed[1] = <<2>> /\ needed[2] = <<3, 1>>
    /\ ret.files = <<1, 2, 3>>

\* C3: Cycle safety.  Every run ends, and for the graph A -> B -> A on a
\* healthy system the run returns [B, A] or [A, B].
CycleAB == HealthySystem /\ needed[0] = <<1>> /\ needed[1] = <<0>>

C3_CycleSafety ==
    /\ <>(pc = "exit")
    /\ [](CycleAB /\ pc = "exit" =>
            /\ ~ret.isNil
            /\ ret.files \in {<<1, 0>>, <<0, 1>>})

C3_Witness == CycleAB /\ pc = "exit" /\ exit = "ok" /\ gathered = <<1, 0>>

\* C4 as stated: the input file is never on the worklist or in the output.
C4_RootNeverListed ==
    /\ inputFile \notin Range(open)
    /\ inputFile \notin Range(files)

\* C4 as amended: the input file is on the worklist or in the output only
\* when it is a dependency of a file that has been read.
C4_RootOnlyWhenRequired ==
    inputFile \in Range(open) \cup Range(files) =>
        \E f \in Processed : Deps(f).st = "ok" /\ inputFile \in Range(Deps(f).val)

C4_Witness ==
    /\ ~ret.isNil
    /\ inputFile \in Range(ret.files)
    /\ inputFile \notin Range(Deps(inputFile).val)

\* C5: a popped file without a dynamic section (or without a dynamic string
\* section) does not fail the run and is appended to the output.
C5_StaticLeafNotFatal ==
    (/\ pc \in {"returned", "exit"}
     /\ lib # NoLib
     /\ ~(hasDynamic[lib] /\ hasDynStr[lib])
     /\ ftype[lib] # "Unparseable")
        => (~ret.err /\ exit # "panic" /\ lib \in Range(files))

\* the candidates of the name looked up and those of the target machine type
Cands == cache[selName]
Classified(p) == getLibraryMachineType(p).st = "ok"
Matching ==
    {k \in 1..Len(Cands) :
        Classified(Cands[k]) /\ getLibraryMachineType(Cands[k]).val = machineType}

C7_SkipUnclassifiable ==
    (pc = "resolved" /\ findMode = findModeLD /\ Matching # {}) =>
        selOut = Ok(Cands[MinOf(Matching)])

\* C8: No partial output.  A failure leaves main without a list and nothing
\* is gathered; a list is returned only with the worklist drained and every
\* file read without failure.
C8_NoPartialOutput ==
    /\ ret.err => (ret.isNil /\ ret.files = <<>>)
    /\ exit \in {"panic", "fatal"} => gathered = <<>>
    /\ gathered # <<>> => (~ret.isNil /\ ~ret.err /\ gathered = ret.files)
    /\ ~ret.isNil =>
          /\ Len(open) = 0
          /\ ret.files = files
          /\ \A f \in Processed : Deps(f).st = "ok"

C8_Witness ==
    /\ pc = "exit"
    /\ exit = "fatal"
    /\ Len(files) > 0
    /\ Len(open) > 0
    /\ ret.isNil
    /\ gathered = <<>>

\* the file that first lists x, as an index of <<input file>> \o output, and
\* the place of x in its list
Discoverers(x, P) == {k \in 1..Len(P) : x \in Range(Deps(P[k]).val)}
PlaceIn(x, d) == MinOf({i \in 1..Len(d) : d[i] = x})
DiscoveredNoLater(x, y, P) ==
    LET kx == MinOf(Discoverers(x, P))
        ky == MinOf(Discoverers(y, P))
    IN \/ kx < ky
       \/ kx = ky /\ PlaceIn(x, Deps(P[kx]).val) <= PlaceIn(y, Deps(P[ky]).val)

\* position i holds the first occurrence of its path
FirstAt(s, i) == \A h \in 1..(i - 1) : s[h] # s[i]

Diamond ==
    /\ HealthySystem
    /\ needed[0] = <<1, 2>> /\ needed[1] = <<3>> /\ needed[2] = <<3>>
    /\ needed[3] = <<>>

\* C9: the output is in breadth-first discovery order: it starts with the
\* input file's dependencies in table order, and a path discovered earlier
\* (by an earlier file, or earlier in the same file's list) comes earlier,
\* each path taken where the output has it first.
C9_BreadthFirst ==
    ~ret.isNil =>
        LET P == <<inputFile>> \o ret.files
            d0 == Deps(inputFile).val
        IN /\ Len(ret.files) >= Len(d0)
           /\ SubSeq(ret.files, 1, Len(d0)) = d0
           /\ \A i \in 1..Len(ret.files) : Discoverers(ret.files[i], P) # {}
           /\ \A i, j \in 1..Len(ret.files) :
                 (i < j /\ FirstAt(ret.files, i) /\ FirstAt(ret.files, j))
                    => DiscoveredNoLater(ret.files[i], ret.files[j], P)
           /\ Diamond => ret.files = <<1, 2, 3>>

C9_Witness == Diamond /\ pc = "exit" /\ gathered = <<1, 2, 3>>

\* C10 as stated: once the popped file is in the output, its dependencies
\* have all been marked seen.
C10_AppendedAfterEnqueue ==
    (pc = "enqueue" /\ LastIs(files, lib)) => Range(libs) \subseteq seen

\* C10 as amended: the popped file is appended once, right after its
\* dependencies were listed and before any of them is marked seen or enqueued.
C10_AppendedBeforeEnqueue ==
    /\ [](pc = "enqueue" => LastIs(files, lib))
    /\ [][/\ files' # files =>
               (pc = "append" /\ files' = Append(files, lib)
                /\ open' = open /\ seen' = seen /\ pc' = "enqueue")
          /\ (pc # "seed" /\ (seen' # seen \/ Len(open') > Len(open))) =>
               (pc = "enqueue" /\ LastIs(files, lib) /\ files' = files)
          /\ (pc = "loop" /\ pc' = "append") =>
               (lib' = open[1] /\ files' = files)]_vars

C10_Witness ==
    /\ pc = "enqueue"
    /\ LastIs(files, lib)
    /\ \E d \in Range(libs) : d \notin seen

====
